---- MODULE Spec2Model ----
(***************************************************************************)
(* Batch processing queue of kabasele243/tk: the Redux slice               *)
(* fileProcessing (store/slices/fileProcessingSlice), the hook             *)
(* useFileProcessor (hooks/useFileProcessor.js) that drives each file      *)
(* through Transcribe -> Rewrite -> Synthesize, and the review handlers of *)
(* components/ReviewModal.jsx.                                             *)
(*                                                                         *)
(* One action is one synchronous run of JavaScript: an event handler, a    *)
(* timer callback, or the continuation of an async function from one       *)
(* `await` to the next.  Reducers are operators from store to store.       *)
(***************************************************************************)
EXTENDS Integers, Sequences, FiniteSets, TLC

\* ---------------------------------------------------------------- bounds
MaxFiles == 2        \* records in the store
MaxAdds == 1         \* handleFileSelect calls
MaxErrors == 1       \* a remote call may fail only while the file's errors list is shorter
MaxReprocess == 1    \* outstanding reprocessFile calls
MaxBatchRuns == 1    \* outstanding startBatchAudioGeneration runs
MaxArgLen == 1       \* length of the id list one startBatchProcessing call is handed
MaxListLen == 2      \* length of the id lists the properties of a call range over
MaxLiveFiles == 3    \* files of one selection in LiveSpec

VARIABLES
  fileProcessing,  \* state.fileProcessing of the Redux store
  settings,        \* state.settings (the part the hook reads)
  processingRef,   \* processingRef.current, the re-entrancy flag of the hook
  engine,          \* where the running processNextInQueue is suspended, and its locals
  timer,           \* a setTimeout(processNextInQueue, 500) of the queue effect is pending
  reprocessCalls,  \* the reprocessFile calls whose processWithAI is outstanding: fileId
                   \* and the `file` the call found in the store when it was made
  batchRuns,       \* the suspended startBatchAudioGeneration runs
  now              \* Date.now()

vars == <<fileProcessing, settings, processingRef, engine, timer, reprocessCalls,
          batchRuns, now>>

\* ------------------------------------------------------------ FILE_STATUS
PENDING == "pending"
TRANSCRIBING == "transcribing"
TRANSCRIBED == "transcribed"
AI_PROCESSING == "ai_processing"
AI_PROCESSED == "ai_processed"
REVIEW_PENDING == "review_pending"
APPROVED == "approved"
REJECTED == "rejected"
GENERATING_SPEECH == "generating_speech"
COMPLETED == "completed"
FAILED == "failed"

FILE_STATUS == {PENDING, TRANSCRIBING, TRANSCRIBED, AI_PROCESSING, AI_PROCESSED,
                REVIEW_PENDING, APPROVED, REJECTED, GENERATING_SPEECH, COMPLETED, FAILED}

InFlight == {TRANSCRIBING, AI_PROCESSING, GENERATING_SPEECH}

\* null for an id (currentlyProcessing), for a result field, for an omitted progress
NullId == <<>>
Null == "null"
Undefined == -1

\* an id no addFiles call ever issues (Date.now() is positive)
UnknownId == <<0, 0>>

\* ----------------------------------------------------------- array helpers
Includes(seq, x) == \E i \in 1..Len(seq) : seq[i] = x

Filter(seq, x) == SelectSeq(seq, LAMBDA y : y # x)

\* files.find(f => f.id === id): index of the first match, 0 when there is none
FindIndex(files, id) ==
  IF \E i \in 1..Len(files) : files[i].id = id
  THEN CHOOSE i \in 1..Len(files) :
         /\ files[i].id = id
         /\ \A j \in 1..(i - 1) : files[j].id # id
  ELSE 0

HasFile(S, id) == FindIndex(S.files, id) # 0

File(S, id) == S.files[FindIndex(S.files, id)]

StatusOf(S, id) == IF HasFile(S, id) THEN File(S, id).status ELSE Null

FileIds(S) == {S.files[i].id : i \in 1..Len(S.files)}

\* the `const file = state.files.find(...); if (file) {...}` frame of every
\* reducer; `changed` is the record after the body, read only when the file exists
NoStatistics == [totalFiles |-> 0, completedFiles |-> 0, failedFiles |-> 0]

\* `state.statistics.failedFiles++` after the `if (file)` block
CountFailed_Always(S, T, id) == [T EXCEPT !.statistics.failedFiles = @ + 1]

\* `state.statistics.failedFiles++` inside the `if (file)` of a reducer
CountFailed(S, T, id) ==
  IF HasFile(S, id) THEN [T EXCEPT !.statistics.failedFiles = @ + 1] ELSE T

CountCompleted(S, T, id) ==
  IF HasFile(S, id) THEN [T EXCEPT !.statistics.completedFiles = @ + 1] ELSE T

WithFile(S, id, changed) ==
  LET i == FindIndex(S.files, id)
  IN IF i = 0 THEN S ELSE [S EXCEPT !.files[i] = changed]

\* --------------------------------------------------------------- reducers
NewFile(id) ==
  [id |-> id, status |-> PENDING, progress |-> 0, transcription |-> Null,
   editableTranscription |-> Null, aiResult |-> Null, editableAIResult |-> Null,
   finalAudio |-> Null, errors |-> <<>>]

addFiles(S, n, clock) ==
  [S EXCEPT !.files = @ \o [k \in 1..n |-> NewFile(<<clock, k - 1>>)],
            !.statistics.totalFiles = @ + n]

\* the reducer without its last statement
removeFile_KeepsSlot(S, fileId) ==
  [S EXCEPT !.files = SelectSeq(@, LAMBDA f : f.id # fileId),
            !.processingQueue = Filter(@, fileId)]

removeFile(S, fileId) ==
  [S EXCEPT !.files = SelectSeq(@, LAMBDA f : f.id # fileId),
            !.processingQueue = Filter(@, fileId),
            !.currentlyProcessing = IF @ = fileId THEN NullId ELSE @]

clearAllFiles(S) ==
  [S EXCEPT !.files = <<>>, !.processingQueue = <<>>, !.currentlyProcessing = NullId,
            !.statistics = NoStatistics]

\* the reducer with unshift in the place of push
addToQueue_Unshift(S, payload) ==
  [S EXCEPT !.processingQueue =
     SelectSeq(payload, LAMBDA id : ~Includes(S.processingQueue, id)) \o @]

\* payload: a sequence of ids (a single id is the one-element sequence)
addToQueue(S, payload) ==
  [S EXCEPT !.processingQueue =
     @ \o SelectSeq(payload, LAMBDA id : ~Includes(S.processingQueue, id))]

removeFromQueue(S, fileId) == [S EXCEPT !.processingQueue = Filter(@, fileId)]

setCurrentlyProcessing(S, id) == [S EXCEPT !.currentlyProcessing = id]

\* the reducer with the progress of the payload dropped
updateFileStatus_DropsProgress(S, fileId, status, progress) ==
  WithFile(S, fileId, [File(S, fileId) EXCEPT !.status = status])

\* the reducer emptying the errors of the file it updates
updateFileStatus_ClearsErrors(S, fileId, status, progress) ==
  WithFile(S, fileId,
    [File(S, fileId) EXCEPT !.status = status,
              !.progress = IF progress # Undefined THEN progress ELSE @,
              !.errors = <<>>])

updateFileStatus(S, fileId, status, progress) ==
  WithFile(S, fileId,
    [File(S, fileId) EXCEPT !.status = status,
              !.progress = IF progress # Undefined THEN progress ELSE @])

\* editableText || transcription.text: Null stands for an omitted editableText
updateFileTranscription(S, fileId, transcription, editableText) ==
  WithFile(S, fileId,
    [File(S, fileId) EXCEPT !.transcription = transcription,
                            !.editableTranscription =
                               IF editableText # Null THEN editableText ELSE transcription])

updateFileAIResult(S, fileId, aiResult, editableText) ==
  WithFile(S, fileId,
    [File(S, fileId) EXCEPT !.aiResult = aiResult,
                            !.editableAIResult =
                               IF editableText # Null THEN editableText ELSE aiResult])

updateFileFinalAudio(S, fileId, audio) ==
  WithFile(S, fileId, [File(S, fileId) EXCEPT !.finalAudio = audio])

markFileCompleted(S, fileId) ==
  IF HasFile(S, fileId) /\ StatusOf(S, fileId) # COMPLETED
  THEN CountCompleted(S, WithFile(S, fileId,
         [File(S, fileId) EXCEPT !.status = COMPLETED, !.progress = 100]), fileId)
  ELSE S

markFileFailed(S, fileId) ==
  CountFailed(S, WithFile(S, fileId,
    [File(S, fileId) EXCEPT !.status = FAILED, !.errors = Append(@, "none")]), fileId)

transcribeFilePending(S, fileId) ==
  WithFile(S, fileId, [File(S, fileId) EXCEPT !.status = TRANSCRIBING])

\* the reducer creating the record it does not find
transcribeFileFulfilled_Upsert(S, fileId, text) ==
  IF HasFile(S, fileId)
  THEN WithFile(S, fileId,
         [File(S, fileId) EXCEPT !.status = TRANSCRIBED, !.transcription = text,
                                 !.editableTranscription = text, !.progress = 33])
  ELSE [S EXCEPT !.files = Append(@, [NewFile(fileId) EXCEPT !.status = TRANSCRIBED,
                                                             !.transcription = text])]

transcribeFileFulfilled(S, fileId, text) ==
  WithFile(S, fileId,
    [File(S, fileId) EXCEPT !.status = TRANSCRIBED, !.transcription = text,
                            !.editableTranscription = text, !.progress = 33])

transcribeFileRejected(S, fileId) ==
  CountFailed(S, WithFile(S, fileId,
    [File(S, fileId) EXCEPT !.status = FAILED, !.errors = Append(@, "transcription")]), fileId)

processWithAIPending(S, fileId) ==
  WithFile(S, fileId, [File(S, fileId) EXCEPT !.status = AI_PROCESSING])

\* the reducer keeping an editable text that is already there
processWithAIFulfilled_KeepsEditable(S, fileId, text) ==
  WithFile(S, fileId,
    [File(S, fileId) EXCEPT !.status = AI_PROCESSED, !.aiResult = text,
                            !.editableAIResult = IF @ # Null THEN @ ELSE text,
                            !.progress = 66])

processWithAIFulfilled(S, fileId, text) ==
  WithFile(S, fileId,
    [File(S, fileId) EXCEPT !.status = AI_PROCESSED, !.aiResult = text,
                            !.editableAIResult = text, !.progress = 66])

\* the reducer resetting the progress of the file it marks FAILED
processWithAIRejected_ResetsProgress(S, fileId) ==
  CountFailed(S, WithFile(S, fileId,
    [File(S, fileId) EXCEPT !.status = FAILED, !.errors = Append(@, "ai_processing"),
                            !.progress = 0]), fileId)

processWithAIRejected(S, fileId) ==
  CountFailed(S, WithFile(S, fileId,
    [File(S, fileId) EXCEPT !.status = FAILED, !.errors = Append(@, "ai_processing")]), fileId)

generateSpeechPending(S, fileId) ==
  WithFile(S, fileId, [File(S, fileId) EXCEPT !.status = GENERATING_SPEECH])

generateSpeechFulfilled(S, fileId, audio) ==
  CountCompleted(S, WithFile(S, fileId,
    [File(S, fileId) EXCEPT !.status = COMPLETED, !.finalAudio = audio, !.progress = 100]), fileId)

\* the reducer clearing the rewrite of the file it marks FAILED
generateSpeechRejected_DropsRewrite(S, fileId) ==
  CountFailed(S, WithFile(S, fileId,
    [File(S, fileId) EXCEPT !.status = FAILED, !.errors = Append(@, "speech_generation"),
                            !.aiResult = Null, !.editableAIResult = Null]), fileId)

generateSpeechRejected(S, fileId) ==
  CountFailed(S, WithFile(S, fileId,
    [File(S, fileId) EXCEPT !.status = FAILED, !.errors = Append(@, "speech_generation")]), fileId)

\* --- reducers the hook and the review modal dispatch, whose bodies are not
\* --- among the sources: written from spec sections 4.2 and 4.3
clearQueue(S) == [S EXCEPT !.processingQueue = <<>>]

setBatchReviewMode(S, on) == [S EXCEPT !.batchReviewMode = on]

addToReviewQueue(S, fileId) ==
  LET T == WithFile(S, fileId, [File(S, fileId) EXCEPT !.status = REVIEW_PENDING])
  IN IF HasFile(S, fileId) /\ ~Includes(S.reviewQueue, fileId)
     THEN [T EXCEPT !.reviewQueue = Append(@, fileId)]
     ELSE T

removeFromReviewQueue(S, fileId) == [S EXCEPT !.reviewQueue = Filter(@, fileId)]

approveFile(S, fileId) ==
  IF StatusOf(S, fileId) # REVIEW_PENDING THEN S
  ELSE LET T == WithFile(S, fileId, [File(S, fileId) EXCEPT !.status = APPROVED])
       IN addToQueue([T EXCEPT !.reviewQueue = Filter(@, fileId),
                               !.approvedFiles =
                                  IF Includes(@, fileId) THEN @ ELSE Append(@, fileId)],
                     <<fileId>>)

\* approveAllReviewed: approveFile for every id of reviewQueue, first to last
RECURSIVE ApproveEach(_, _)
ApproveEach(S, ids) ==
  IF ids = <<>> THEN S ELSE ApproveEach(approveFile(S, Head(ids)), Tail(ids))

approveAllReviewed(S) == ApproveEach(S, S.reviewQueue)

rejectFile(S, fileId) ==
  IF StatusOf(S, fileId) # REVIEW_PENDING THEN S
  ELSE LET T == WithFile(S, fileId, [File(S, fileId) EXCEPT !.status = REJECTED])
       IN [T EXCEPT !.reviewQueue = Filter(@, fileId)]

\* ------------------------------------------------- useFileProcessor: engine
Idle == [pc |-> "idle", id |-> NullId, apiKey |-> FALSE]

\* the finally block without its first dispatch
Cleanup_KeepsHead(S, id) == setCurrentlyProcessing(S, NullId)

\* the finally block without its second dispatch
Cleanup_KeepsSlot(S, id) == removeFromQueue(S, id)

\* `finally { removeFromQueue(nextFileId); setCurrentlyProcessing(null) }`
Cleanup(S, id) == setCurrentlyProcessing(removeFromQueue(S, id), NullId)

\* `catch (error) { markFileFailed(...) }` followed by the finally block
CatchAndCleanup(S, id) == Cleanup(markFileFailed(S, id), id)

\* Steps 3 and 4 of processNextInQueue, up to the next await or the return.
\* finalFile.status of a record that is gone throws a TypeError into the catch.
SpeechStep(S, id) ==
  IF ~HasFile(S, id)
  THEN [S |-> CatchAndCleanup(S, id), pc |-> "idle"]
  ELSE IF S.batchReviewMode /\ StatusOf(S, id) = REVIEW_PENDING
  THEN [S |-> Cleanup(S, id), pc |-> "idle"]
  ELSE IF \/ StatusOf(S, id) = APPROVED
          \/ (~S.batchReviewMode /\ StatusOf(S, id) = AI_PROCESSED)
  THEN [S |-> generateSpeechPending(S, id), pc |-> "speech"]
  ELSE [S |-> Cleanup(S, id), pc |-> "idle"]

\* Step 2 of processNextInQueue; apiKey is the one read into currentSettings
\* when the run started.
AIStep(S, id, apiKey) ==
  IF StatusOf(S, id) = TRANSCRIBED
  THEN IF ~apiKey
       THEN [S |-> CatchAndCleanup(S, id), pc |-> "idle"]
       ELSE [S |-> processWithAIPending(S, id), pc |-> "ai"]
  ELSE SpeechStep(S, id)

\* Step 1, for the head of the queue once the slot has been taken
TranscribeStep(S, id, apiKey) ==
  IF StatusOf(S, id) = PENDING
  THEN [S |-> transcribeFilePending(S, id), pc |-> "transcribe"]
  ELSE AIStep(S, id, apiKey)

\* processNextInQueue from its first line to its first await or its return
StartRun(S, apiKey) ==
  IF S.currentlyProcessing # NullId \/ Len(S.processingQueue) = 0
  THEN [S |-> S, pc |-> "idle"]
  ELSE LET id == Head(S.processingQueue)
       IN IF ~HasFile(S, id)
          THEN [S |-> removeFromQueue(S, id), pc |-> "idle"]
          ELSE IF S.batchReviewMode /\ StatusOf(S, id) = REVIEW_PENDING
          THEN [S |-> removeFromQueue(S, id), pc |-> "idle"]
          ELSE TranscribeStep(setCurrentlyProcessing(S, id), id, apiKey)

\* the engine's variables after a step that left the store S at position pc
Continue(r, id, apiKey) ==
  /\ fileProcessing' = r.S
  /\ engine' = IF r.pc = "idle" THEN Idle ELSE [pc |-> r.pc, id |-> id, apiKey |-> apiKey]
  /\ processingRef' = (r.pc # "idle")

\* the outcomes of a remote call on file id: success or failure, failure only
\* while the errors list of the file is within the bound of the model
Outcomes(S, id) ==
  IF HasFile(S, id) => Len(File(S, id).errors) < MaxErrors THEN {TRUE, FALSE} ELSE {TRUE}

\* the queue effect.  React runs it after the render that follows a store
\* change, when one of its dependencies [currentlyProcessing,
\* processingQueue.length] differs from the previous render: the cleanup of
\* the previous run clears its timeout, then the timeout is set again when the
\* slot is free, the queue is not empty and no run is active.  `pending` says
\* whether a timeout set earlier is still to fire.
Deps(S) == <<S.currentlyProcessing, Len(S.processingQueue)>>

QueueEffect(pending) ==
  timer' = IF Deps(fileProcessing') # Deps(fileProcessing)
           THEN /\ fileProcessing'.currentlyProcessing = NullId
                /\ Len(fileProcessing'.processingQueue) > 0
                /\ ~processingRef'
           ELSE pending

\* processNextInQueue without its first statement
AlreadyProcessing_Unchecked == FALSE

\* `if (processingRef.current) return`
AlreadyProcessing == processingRef

\* one invocation of processNextInQueue, to its first await or its return
InvokeProcessNextInQueue ==
  IF AlreadyProcessing
  THEN UNCHANGED <<fileProcessing, engine, processingRef>>
  ELSE LET id == IF Len(fileProcessing.processingQueue) = 0 THEN NullId
                 ELSE Head(fileProcessing.processingQueue)
       IN Continue(StartRun(fileProcessing, settings.openaiApiKey),
                   id, settings.openaiApiKey)

\* the setTimeout of the queue effect fires: processNextInQueue()
ProcessNextInQueue ==
  /\ timer
  /\ InvokeProcessNextInQueue
  /\ QueueEffect(FALSE)
  /\ UNCHANGED <<settings, reprocessCalls, batchRuns, now>>

\* the component that uses the hook calls the processNextInQueue the hook
\* returns to it, at any moment; a pending timeout of the queue effect stays
CallProcessNextInQueue ==
  /\ InvokeProcessNextInQueue
  /\ QueueEffect(timer)
  /\ UNCHANGED <<settings, reprocessCalls, batchRuns, now>>

\* transcribeFile settles; unwrap() rethrows a rejection into the catch
TranscribeReturns ==
  /\ engine.pc = "transcribe"
  /\ \E ok \in Outcomes(fileProcessing, engine.id) :
       IF ok
       THEN Continue([S |-> transcribeFileFulfilled(fileProcessing, engine.id, "text"),
                      pc |-> "delay1"], engine.id, engine.apiKey)
       ELSE Continue([S |-> CatchAndCleanup(transcribeFileRejected(fileProcessing, engine.id),
                                            engine.id),
                      pc |-> "idle"], engine.id, engine.apiKey)
  /\ UNCHANGED <<settings, reprocessCalls, batchRuns, now>>
  /\ QueueEffect(timer)

\* the 1000 ms pause after transcription ends
AfterTranscribeDelay ==
  /\ engine.pc = "delay1"
  /\ Continue(AIStep(fileProcessing, engine.id, engine.apiKey), engine.id, engine.apiKey)
  /\ UNCHANGED <<settings, reprocessCalls, batchRuns, now>>
  /\ QueueEffect(timer)

\* processWithAI settles
AIReturns ==
  /\ engine.pc = "ai"
  /\ \E ok \in Outcomes(fileProcessing, engine.id) :
       IF ok
       THEN Continue([S |-> processWithAIFulfilled(fileProcessing, engine.id, "rewrite"),
                      pc |-> "delay2"], engine.id, engine.apiKey)
       ELSE Continue([S |-> CatchAndCleanup(processWithAIRejected(fileProcessing, engine.id),
                                            engine.id),
                      pc |-> "idle"], engine.id, engine.apiKey)
  /\ UNCHANGED <<settings, reprocessCalls, batchRuns, now>>
  /\ QueueEffect(timer)

\* the 1000 ms pause after the rewrite ends
AfterAIDelay ==
  /\ engine.pc = "delay2"
  /\ Continue(SpeechStep(fileProcessing, engine.id), engine.id, engine.apiKey)
  /\ UNCHANGED <<settings, reprocessCalls, batchRuns, now>>
  /\ QueueEffect(timer)

\* generateSpeech settles; the finally block ends the run
SpeechReturns ==
  /\ engine.pc = "speech"
  /\ \E ok \in Outcomes(fileProcessing, engine.id) :
       IF ok
       THEN Continue([S |-> Cleanup(generateSpeechFulfilled(fileProcessing, engine.id, "audio"),
                                    engine.id),
                      pc |-> "idle"], engine.id, engine.apiKey)
       ELSE Continue([S |-> CatchAndCleanup(generateSpeechRejected(fileProcessing, engine.id),
                                            engine.id),
                      pc |-> "idle"], engine.id, engine.apiKey)
  /\ UNCHANGED <<settings, reprocessCalls, batchRuns, now>>
  /\ QueueEffect(timer)

\* ------------------------------------------- useFileProcessor: user calls
\* the filter with FAILED let through, as if a failed file could be started again
Eligible_AlsoFailed(S, id) ==
  StatusOf(S, id) \in {PENDING, TRANSCRIBED, AI_PROCESSED, APPROVED, FAILED}

Eligible(S, id) ==
  StatusOf(S, id) \in {PENDING, TRANSCRIBED, AI_PROCESSED, APPROVED}

\* `ids.forEach(id => { if (!queue.includes(id)) dispatch(addToQueue(id)) })`,
\* queue being the array the callback closed over
RECURSIVE EnqueueEach(_, _, _)
EnqueueEach(S, ids, queue) ==
  IF ids = <<>> THEN S
  ELSE EnqueueEach(IF Includes(queue, Head(ids)) THEN S ELSE addToQueue(S, <<Head(ids)>>),
                   Tail(ids), queue)

\* the id lists a caller may hand in: ids of the store and one unknown id
IdLists(S, maxLen) ==
  UNION {[1..n -> FileIds(S) \cup {UnknownId}] : n \in 0..maxLen}

startBatchProcessing(S, fileIds) ==
  LET validFileIds == SelectSeq(fileIds, LAMBDA id : Eligible(S, id))
  IN IF Len(validFileIds) = 0
     THEN [S |-> S, threw |-> TRUE, result |-> 0]
     ELSE [S |-> EnqueueEach(S, validFileIds, S.processingQueue),
           threw |-> FALSE, result |-> Len(validFileIds)]

StartBatchProcessing ==
  /\ \E fileIds \in IdLists(fileProcessing, MaxArgLen) :
       LET r == startBatchProcessing(fileProcessing, fileIds)
       IN fileProcessing' = r.S
  /\ UNCHANGED <<settings, processingRef, engine, reprocessCalls, batchRuns, now>>
  /\ QueueEffect(timer)

\* pauseProcessing as if it also dropped the run that is under way
PauseProcessing_DropsRun ==
  /\ fileProcessing' = setCurrentlyProcessing(clearQueue(fileProcessing), NullId)
  /\ engine' = Idle
  /\ processingRef' = FALSE
  /\ UNCHANGED <<settings, reprocessCalls, batchRuns, now>>
  /\ QueueEffect(timer)

PauseProcessing ==
  /\ fileProcessing' = clearQueue(fileProcessing)
  /\ UNCHANGED <<settings, processingRef, engine, reprocessCalls, batchRuns, now>>
  /\ QueueEffect(timer)

IdsWithStatus(S, status) ==
  LET matching == SelectSeq(S.files, LAMBDA f : f.status = status)
  IN [i \in 1..Len(matching) |-> matching[i].id]

\* `pendingFiles.forEach(fileId => dispatch(addToQueue(fileId)))`
RECURSIVE AddEachToQueue(_, _)
AddEachToQueue(S, ids) ==
  IF ids = <<>> THEN S ELSE AddEachToQueue(addToQueue(S, <<Head(ids)>>), Tail(ids))

resumeProcessing(S) == AddEachToQueue(S, IdsWithStatus(S, PENDING))

ResumeProcessing ==
  /\ fileProcessing' = resumeProcessing(fileProcessing)
  /\ UNCHANGED <<settings, processingRef, engine, reprocessCalls, batchRuns, now>>
  /\ QueueEffect(timer)

\* `failedFiles.forEach(fileId => { updateFileStatus(...PENDING, 0); addToQueue(fileId) })`
RECURSIVE ResetEach(_, _)
ResetEach(S, ids) ==
  IF ids = <<>> THEN S
  ELSE ResetEach(addToQueue(updateFileStatus(S, Head(ids), PENDING, 0), <<Head(ids)>>),
                 Tail(ids))

retryFailedFiles(S) ==
  LET failedFiles == IdsWithStatus(S, FAILED)
  IN [S |-> ResetEach(S, failedFiles), result |-> Len(failedFiles)]

\* retried only while the errors lists are within the bound of the model
RetryFailedFiles ==
  /\ \A i \in 1..Len(fileProcessing.files) :
       Len(fileProcessing.files[i].errors) <= MaxErrors + 1
  /\ LET r == retryFailedFiles(fileProcessing)
     IN fileProcessing' = r.S
  /\ UNCHANGED <<settings, processingRef, engine, reprocessCalls, batchRuns, now>>
  /\ QueueEffect(timer)

\* reprocessFile up to its await: throws without dispatching when the file is
\* unknown or no key is set, else processWithAI is pending
reprocessFile(S, fileId, apiKey) ==
  IF ~HasFile(S, fileId) \/ ~apiKey
  THEN [S |-> S, issued |-> FALSE, threw |-> TRUE]
  ELSE [S |-> processWithAIPending(S, fileId), issued |-> TRUE, threw |-> FALSE]

\* the page offers the action on a rewritten file, the review modal on a file
\* under review
ReprocessFile ==
  /\ \E fileId \in FileIds(fileProcessing) :
       /\ StatusOf(fileProcessing, fileId) \in {AI_PROCESSED, REVIEW_PENDING}
       /\ LET r == reprocessFile(fileProcessing, fileId, settings.openaiApiKey)
          IN /\ r.issued => Len(reprocessCalls) < MaxReprocess
             /\ fileProcessing' = r.S
             /\ reprocessCalls' = IF r.issued
                                  THEN Append(reprocessCalls,
                                              [fileId |-> fileId,
                                               file |-> File(fileProcessing, fileId)])
                                  ELSE reprocessCalls
  /\ UNCHANGED <<settings, processingRef, engine, batchRuns, now>>
  /\ QueueEffect(timer)

RemoveAt(seq, i) == [k \in 1..(Len(seq) - 1) |-> IF k < i THEN seq[k] ELSE seq[k + 1]]

\* the processWithAI of a reprocessFile settles, with `text` when it is
\* fulfilled; a rejection is rethrown to the caller
ReprocessSettles(text) ==
  /\ \E i \in 1..Len(reprocessCalls) :
       /\ \E ok \in Outcomes(fileProcessing, reprocessCalls[i].fileId) :
            IF ok
            THEN fileProcessing' =
                   processWithAIFulfilled(fileProcessing, reprocessCalls[i].fileId, text)
            ELSE fileProcessing' =
                   processWithAIRejected(fileProcessing, reprocessCalls[i].fileId)
       /\ reprocessCalls' = RemoveAt(reprocessCalls, i)
  /\ UNCHANGED <<settings, processingRef, engine, batchRuns, now>>
  /\ QueueEffect(timer)

\* the remote service answers a reprocessFile with the text it gave before
ReprocessReturns == ReprocessSettles("rewrite")

\* the remote service answers a reprocessFile with another text
ReprocessReturnsAgain == ReprocessSettles("rewrite again")

\* startBatchAudioGeneration: the approved files of the closure, then one
\* generateSpeech after the other
ApprovedToProcess(S) ==
  SelectSeq(S.approvedFiles, LAMBDA id : StatusOf(S, id) = APPROVED)

\* the for-loop from the head of todo to its next await, or to the return
BatchIterate(S, todo) ==
  IF todo = <<>>
  THEN [S |-> S, run |-> <<>>]
  ELSE [S |-> generateSpeechPending(S, Head(todo)),
        run |-> <<[pc |-> "speech", todo |-> todo]>>]

\* startBatchAudioGeneration up to its first await, or its throw
startBatchAudioGeneration(S) ==
  IF ApprovedToProcess(S) = <<>>
  THEN [S |-> S, run |-> <<>>, threw |-> TRUE, result |-> 0]
  ELSE [S |-> BatchIterate(S, ApprovedToProcess(S)).S,
        run |-> BatchIterate(S, ApprovedToProcess(S)).run,
        threw |-> FALSE, result |-> Len(ApprovedToProcess(S))]

StartBatchAudioGeneration ==
  /\ LET r == startBatchAudioGeneration(fileProcessing)
     IN /\ r.run # <<>> => Len(batchRuns) < MaxBatchRuns
        /\ fileProcessing' = r.S
        /\ batchRuns' = batchRuns \o r.run
  /\ UNCHANGED <<settings, processingRef, engine, reprocessCalls, now>>
  /\ QueueEffect(timer)

ReplaceAt(seq, i, new) == SubSeq(seq, 1, i - 1) \o new \o SubSeq(seq, i + 1, Len(seq))

\* generateSpeech of a batch run settles: on success the 1000 ms pause, on
\* failure the catch logs and the loop goes on at once
BatchSpeechReturns ==
  /\ \E i \in 1..Len(batchRuns) :
       /\ batchRuns[i].pc = "speech"
       /\ LET id == Head(batchRuns[i].todo)
          IN \E ok \in Outcomes(fileProcessing, id) :
               IF ok
               THEN /\ fileProcessing' = generateSpeechFulfilled(fileProcessing, id, "audio")
                    /\ batchRuns' = [batchRuns EXCEPT ![i].pc = "delay"]
               ELSE LET r == BatchIterate(generateSpeechRejected(fileProcessing, id),
                                          Tail(batchRuns[i].todo))
                    IN /\ fileProcessing' = r.S
                       /\ batchRuns' = ReplaceAt(batchRuns, i, r.run)
  /\ UNCHANGED <<settings, processingRef, engine, reprocessCalls, now>>
  /\ QueueEffect(timer)

BatchAfterDelay ==
  /\ \E i \in 1..Len(batchRuns) :
       /\ batchRuns[i].pc = "delay"
       /\ LET r == BatchIterate(fileProcessing, Tail(batchRuns[i].todo))
          IN /\ fileProcessing' = r.S
             /\ batchRuns' = ReplaceAt(batchRuns, i, r.run)
  /\ UNCHANGED <<settings, processingRef, engine, reprocessCalls, now>>
  /\ QueueEffect(timer)

\* ------------------------------------------------------- fileUtils.js
\* a file of a selection: its declared type and its name, letter by letter
validTypes ==
  {"audio/mp3", "audio/wav", "audio/m4a", "audio/flac", "audio/mpeg",
   "video/mp4", "video/avi", "video/mov", "video/mkv", "video/webm"}

\* the alternatives of the pattern /\.(mp3|wav|m4a|flac|mp4|avi|mov|mkv|webm)$/i
validExtensions ==
  {<<"m", "p", "3">>, <<"w", "a", "v">>, <<"m", "4", "a">>, <<"f", "l", "a", "c">>,
   <<"m", "p", "4">>, <<"a", "v", "i">>, <<"m", "o", "v">>, <<"m", "k", "v">>,
   <<"w", "e", "b", "m">>}

\* the i flag: a letter matches in either case
LowerCase(c) ==
  CASE c = "A" -> "a" [] c = "M" -> "m" [] c = "P" -> "p" [] c = "V" -> "v"
    [] c = "W" -> "w" [] OTHER -> c

\* the pattern with the i flag dropped
Matches_CaseSensitive(name, ext) ==
  /\ Len(name) > Len(ext)
  /\ name[Len(name) - Len(ext)] = "."
  /\ SubSeq(name, Len(name) - Len(ext) + 1, Len(name)) = ext

\* name ends with a dot and the letters of ext, in either case
Matches(name, ext) ==
  /\ Len(name) > Len(ext)
  /\ name[Len(name) - Len(ext)] = "."
  /\ \A k \in 1..Len(ext) : LowerCase(name[Len(name) - Len(ext) + k]) = ext[k]

isValidAudioVideoFile(file) ==
  \/ file.type \in validTypes
  \/ \E ext \in validExtensions : Matches(file.name, ext)

\* the filter letting failed files through as well
isCompletedFile_AlsoFailed(f) == f.status \in {COMPLETED, FAILED}

\* `f => f.status === 'completed'`
isCompletedFile(f) == f.status = COMPLETED

\* bulkDownloadFiles: throws when no file is completed, else one folder per
\* completed file, in the order of `files`, and the count of the summary
bulkDownloadFiles(files) ==
  LET completedFiles == SelectSeq(files, isCompletedFile)
  IN IF Len(completedFiles) = 0
     THEN [threw |-> TRUE, fileCount |-> 0, folderNames |-> <<>>]
     ELSE [threw |-> FALSE, fileCount |-> Len(completedFiles),
           folderNames |-> [i \in 1..Len(completedFiles) |-> completedFiles[i].id]]

\* the asset types of the three download buttons, and one no button passes
AssetTypes == {"transcriptions", "ai_processed", "audio_files"}

\* downloadAssetType: the completed files go to the function of the asset
\* type, which writes one entry per file that has the asset and saves the
\* export whatever the number of entries; an unknown type throws.  `files`
\* are the ids the function is handed, `entries` those written.
downloadAssetType(files, assetType) ==
  LET completedFiles == SelectSeq(files, isCompletedFile)
      idsOf(fs) == [i \in 1..Len(fs) |-> fs[i].id]
      withAsset ==
        CASE assetType = "transcriptions" -> completedFiles
          [] assetType = "ai_processed" ->
               SelectSeq(completedFiles, LAMBDA f : f.aiResult # Null)
          [] assetType = "audio_files" ->
               SelectSeq(completedFiles, LAMBDA f : f.finalAudio # Null)
          [] OTHER -> <<>>
  IN IF assetType \in AssetTypes
     THEN [threw |-> FALSE, saved |-> TRUE, files |-> idsOf(completedFiles),
           entries |-> idsOf(withAsset)]
     ELSE [threw |-> TRUE, saved |-> FALSE, files |-> <<>>, entries |-> <<>>]

\* ------------------------------------------------------- page and modal
\* handleDownloadAssetType: downloadAssetType on the files of the store; an
\* error is shown in an alert; nothing is dispatched
handleDownloadAssetType(S, assetType) ==
  [S |-> S, threw |-> downloadAssetType(S.files, assetType).threw,
   saved |-> downloadAssetType(S.files, assetType).saved,
   files |-> downloadAssetType(S.files, assetType).files,
   entries |-> downloadAssetType(S.files, assetType).entries]

\* handleBulkDownload: bulkDownloadFiles on the files of the store; an error
\* is shown in an alert; nothing is dispatched
handleBulkDownload(S) ==
  [S |-> S, threw |-> bulkDownloadFiles(S.files).threw,
   fileCount |-> bulkDownloadFiles(S.files).fileCount,
   folderNames |-> bulkDownloadFiles(S.files).folderNames]

\* the number of valid files above which handleFileSelect asks to go on
ConfirmAbove == 100

\* handleFileSelect: the valid files of the selection are added in one
\* addFiles; nothing is dispatched when there is none, or when there are more
\* than a hundred and the user does not confirm
handleFileSelect(S, selectedFiles, clock, confirmed) ==
  LET validFiles == SelectSeq(selectedFiles, isValidAudioVideoFile)
  IN IF Len(validFiles) > ConfirmAbove /\ ~confirmed THEN S
     ELSE IF Len(validFiles) > 0 THEN addFiles(S, Len(validFiles), clock)
     ELSE S

\* the files a selection is made of in the model
RawFiles ==
  [type : {"audio/mpeg", "text/plain", ""},
   name : {<<"a", ".", "m", "p", "3">>, <<"a", ".", "W", "a", "V">>,
           <<"a", "m", "p", "3">>, <<"a", ".", "m", "p", "3", ".", "t", "x", "t">>}]

Selections(maxLen) == UNION {[1..n -> RawFiles] : n \in 1..maxLen}

\* handleFileSelect with a selection of valid and invalid files
SelectFiles ==
  /\ now <= MaxAdds
  /\ \E selectedFiles \in Selections(MaxFiles - Len(fileProcessing.files)) :
       \E confirmed \in BOOLEAN :
         fileProcessing' = handleFileSelect(fileProcessing, selectedFiles, now, confirmed)
  /\ now' = now + 1
  /\ UNCHANGED <<settings, processingRef, engine, reprocessCalls, batchRuns>>
  /\ QueueEffect(timer)

\* handleFileSelect with n valid files
HandleFileSelect(maxFiles) ==
  /\ now <= MaxAdds
  /\ \E n \in 1..(maxFiles - Len(fileProcessing.files)) :
       fileProcessing' = addFiles(fileProcessing, n, now)
  /\ now' = now + 1
  /\ UNCHANGED <<settings, processingRef, engine, reprocessCalls, batchRuns>>
  /\ QueueEffect(timer)

AddFiles == HandleFileSelect(MaxFiles)

AddLiveFiles == HandleFileSelect(MaxLiveFiles)

\* a second handleFileSelect within the millisecond of the previous one:
\* Date.now() returns the value it returned to that call.  At most MaxFiles
\* files are ever added.
AddFilesSameTick ==
  /\ now > 1
  /\ \E n \in 1..(MaxFiles - fileProcessing.statistics.totalFiles) :
       fileProcessing' = addFiles(fileProcessing, n, now - 1)
  /\ UNCHANGED <<settings, processingRef, engine, reprocessCalls, batchRuns, now>>
  /\ QueueEffect(timer)

\* a dispatch of addToQueue with an array of ids (a single id is the array of one)
AddToQueue ==
  /\ \E payload \in IdLists(fileProcessing, MaxListLen) :
       fileProcessing' = addToQueue(fileProcessing, payload)
  /\ UNCHANGED <<settings, processingRef, engine, reprocessCalls, batchRuns, now>>
  /\ QueueEffect(timer)

\* the remove button of a file row is disabled while the file is in flight
RemoveFile ==
  /\ \E fileId \in FileIds(fileProcessing) :
       /\ StatusOf(fileProcessing, fileId) \notin InFlight
       /\ fileProcessing' = removeFile(fileProcessing, fileId)
  /\ UNCHANGED <<settings, processingRef, engine, reprocessCalls, batchRuns, now>>
  /\ QueueEffect(timer)

\* store.dispatch(removeFile(id)) for any file of the store, whatever its status
DispatchRemoveFile ==
  /\ \E fileId \in FileIds(fileProcessing) :
       fileProcessing' = removeFile(fileProcessing, fileId)
  /\ UNCHANGED <<settings, processingRef, engine, reprocessCalls, batchRuns, now>>
  /\ QueueEffect(timer)

ClearAllFiles ==
  /\ fileProcessing.files # <<>>
  /\ fileProcessing' = clearAllFiles(fileProcessing)
  /\ UNCHANGED <<settings, processingRef, engine, reprocessCalls, batchRuns, now>>
  /\ QueueEffect(timer)

\* the review-mode checkbox of the page; like the key, the setting is edited once
SetBatchReviewMode ==
  /\ ~fileProcessing.batchReviewMode
  /\ fileProcessing' = setBatchReviewMode(fileProcessing, TRUE)
  /\ UNCHANGED <<settings, processingRef, engine, reprocessCalls, batchRuns, now>>
  /\ QueueEffect(timer)

\* updateAISettings({openaiApiKey}): the user enters a key
UpdateAISettings ==
  /\ ~settings.openaiApiKey
  /\ settings' = [settings EXCEPT !.openaiApiKey = TRUE]
  /\ UNCHANGED <<timer, fileProcessing, processingRef, engine, reprocessCalls, batchRuns, now>>

\* a rewritten file is put up for review while review mode is on
EnterReview ==
  /\ fileProcessing.batchReviewMode
  /\ \E fileId \in FileIds(fileProcessing) :
       /\ StatusOf(fileProcessing, fileId) = AI_PROCESSED
       /\ fileProcessing' = addToReviewQueue(fileProcessing, fileId)
  /\ UNCHANGED <<settings, processingRef, engine, reprocessCalls, batchRuns, now>>
  /\ QueueEffect(timer)

handleApprove(S, fileId) == removeFromReviewQueue(approveFile(S, fileId), fileId)

handleReject(S, fileId) == removeFromReviewQueue(rejectFile(S, fileId), fileId)

\* the review modal is open on a file that awaits review
HandleApprove ==
  /\ \E fileId \in FileIds(fileProcessing) :
       /\ StatusOf(fileProcessing, fileId) = REVIEW_PENDING
       /\ fileProcessing' = handleApprove(fileProcessing, fileId)
  /\ UNCHANGED <<settings, processingRef, engine, reprocessCalls, batchRuns, now>>
  /\ QueueEffect(timer)

HandleReject ==
  /\ \E fileId \in FileIds(fileProcessing) :
       /\ StatusOf(fileProcessing, fileId) = REVIEW_PENDING
       /\ fileProcessing' = handleReject(fileProcessing, fileId)
  /\ UNCHANGED <<settings, processingRef, engine, reprocessCalls, batchRuns, now>>
  /\ QueueEffect(timer)

\* handleApproveAll: dispatch(approveAllReviewed()), then the
\* startBatchAudioGeneration of the render the button belongs to, whose
\* `approvedFiles` and `files` are those of the store S before the dispatch.
\* The call throws when none of them is APPROVED, else it starts its loop.
handleApproveAll(S) ==
  LET T == approveAllReviewed(S)
      filesToProcess == ApprovedToProcess(S)
  IN IF filesToProcess = <<>>
     THEN [S |-> T, run |-> <<>>, threw |-> TRUE]
     ELSE [S |-> BatchIterate(T, filesToProcess).S,
           run |-> BatchIterate(T, filesToProcess).run, threw |-> FALSE]

\* the Approve All button, shown while reviewQueue is not empty
HandleApproveAll ==
  /\ Len(fileProcessing.reviewQueue) > 0
  /\ LET r == handleApproveAll(fileProcessing)
     IN /\ r.run # <<>> => Len(batchRuns) < MaxBatchRuns
        /\ fileProcessing' = r.S
        /\ batchRuns' = batchRuns \o r.run
  /\ UNCHANGED <<settings, processingRef, engine, reprocessCalls, now>>
  /\ QueueEffect(timer)

\* ------------------------------------------------------------- store.js
\* the two persistConfig objects of store.js: the keys of the root state that
\* redux-persist writes to storage and restores
persistConfig == [whitelist |-> {"settings"}]

persistConfigSecond == [whitelist |-> {"fileProcessing", "settings"}]

\* initialState of the fileProcessing slice
initialState ==
  [files |-> <<>>, processingQueue |-> <<>>, currentlyProcessing |-> NullId,
   reviewQueue |-> <<>>, approvedFiles |-> <<>>, batchReviewMode |-> FALSE,
   statistics |-> NoStatistics]

\* persistReducer on REHYDRATE: a whitelisted key takes its stored value, any
\* other key the initial state of its reducer
rehydrate(config, key, stored, initial) ==
  IF key \in config.whitelist THEN stored ELSE initial

\* the page is reloaded: the store is built again by one of the two
\* configurations of store.js and rehydrated; the hook's ref, its suspended
\* runs and its timers are gone with the page
Reload ==
  /\ \E config \in {persistConfig, persistConfigSecond} :
       /\ fileProcessing' = rehydrate(config, "fileProcessing", fileProcessing, initialState)
       /\ settings' = rehydrate(config, "settings", settings, [openaiApiKey |-> FALSE])
  /\ processingRef' = FALSE
  /\ engine' = Idle
  /\ timer' = (/\ fileProcessing'.currentlyProcessing = NullId
               /\ Len(fileProcessing'.processingQueue) > 0)
  /\ reprocessCalls' = <<>>
  /\ batchRuns' = <<>>
  /\ UNCHANGED now

\* ------------------------------------------------------------ the system
Init ==
  /\ fileProcessing = [files |-> <<>>, processingQueue |-> <<>>,
                       currentlyProcessing |-> NullId, reviewQueue |-> <<>>,
                       approvedFiles |-> <<>>, batchReviewMode |-> FALSE,
                       statistics |-> NoStatistics]
  /\ settings = [openaiApiKey |-> FALSE]
  /\ processingRef = FALSE
  /\ engine = Idle
  /\ timer = FALSE
  /\ reprocessCalls = <<>>
  /\ batchRuns = <<>>
  /\ now = 1

EngineNext ==
  \/ ProcessNextInQueue
  \/ TranscribeReturns
  \/ AfterTranscribeDelay
  \/ AIReturns
  \/ AfterAIDelay
  \/ SpeechReturns

UserNext ==
  \/ AddFiles
  \/ RemoveFile
  \/ ClearAllFiles
  \/ StartBatchProcessing
  \/ PauseProcessing
  \/ ResumeProcessing
  \/ RetryFailedFiles
  \/ ReprocessFile
  \/ ReprocessReturns
  \/ StartBatchAudioGeneration
  \/ BatchSpeechReturns
  \/ BatchAfterDelay
  \/ SetBatchReviewMode
  \/ UpdateAISettings
  \/ EnterReview
  \/ HandleApprove
  \/ HandleReject
  \/ HandleApproveAll

Next == EngineNext \/ UserNext

Spec == Init /\ [][Next]_vars

\* the queue under its enqueueing operations alone
QueueNext ==
  \/ EngineNext
  \/ AddFiles
  \/ UpdateAISettings
  \/ StartBatchProcessing
  \/ ResumeProcessing
  \/ RetryFailedFiles
  \/ AddToQueue

QueueSpec == Init /\ [][QueueNext]_vars

\* the engine under review, with a timer that fires and remote calls that
\* return: every engine step that is enabled is eventually taken
LiveNext ==
  \/ EngineNext
  \/ AddLiveFiles
  \/ RemoveFile
  \/ StartBatchProcessing
  \/ SetBatchReviewMode
  \/ UpdateAISettings
  \/ EnterReview
  \/ HandleApprove

LiveSpec == Init /\ [][LiveNext]_vars /\ WF_vars(EngineNext)

\* the queue engine with removeFile dispatched at any moment of a run
RemoveNext ==
  \/ EngineNext
  \/ AddFiles
  \/ UpdateAISettings
  \/ StartBatchProcessing
  \/ DispatchRemoveFile

RemoveSpec == Init /\ [][RemoveNext]_vars

\* the queue engine with selections made within one tick of the clock
ClockNext ==
  \/ EngineNext
  \/ AddFiles
  \/ AddFilesSameTick
  \/ RemoveFile
  \/ UpdateAISettings
  \/ StartBatchProcessing

ClockSpec == Init /\ [][ClockNext]_vars

\* the queue engine with selections of valid and invalid files
SelectNext ==
  \/ EngineNext
  \/ SelectFiles
  \/ RemoveFile
  \/ UpdateAISettings
  \/ StartBatchProcessing

SelectSpec == Init /\ [][SelectNext]_vars

\* the queue engine across reloads of the page
ReloadNext ==
  \/ EngineNext
  \/ AddFiles
  \/ UpdateAISettings
  \/ StartBatchProcessing
  \/ Reload

ReloadSpec == Init /\ [][ReloadNext]_vars

\* the queue engine with removeFile and clearAllFiles dispatched at any
\* moment of a run
SlotNext ==
  \/ EngineNext
  \/ AddFiles
  \/ UpdateAISettings
  \/ StartBatchProcessing
  \/ DispatchRemoveFile
  \/ ClearAllFiles

SlotSpec == Init /\ [][SlotNext]_vars

\* the queue engine with processNextInQueue also called directly, and files
\* removed between the stages of a run
GuardNext ==
  \/ EngineNext
  \/ AddFiles
  \/ UpdateAISettings
  \/ StartBatchProcessing
  \/ RemoveFile
  \/ CallProcessNextInQueue

GuardSpec == Init /\ [][GuardNext]_vars

\* the queue engine with pauseProcessing and the enqueueing calls, with a
\* timer that fires and remote calls that return
PauseNext ==
  \/ EngineNext
  \/ AddLiveFiles
  \/ UpdateAISettings
  \/ StartBatchProcessing
  \/ PauseProcessing
  \/ ResumeProcessing

PauseSpec == Init /\ [][PauseNext]_vars /\ WF_vars(EngineNext)

\* the queue engine under review, with ids of any file enqueued
HeadNext ==
  \/ EngineNext
  \/ AddFiles
  \/ UpdateAISettings
  \/ AddToQueue
  \/ SetBatchReviewMode
  \/ EnterReview
  \/ HandleReject

HeadSpec == Init /\ [][HeadNext]_vars

\* the queue engine and reprocessFile, the service answering a reprocessFile
\* with a text of its own
ReprocessNext ==
  \/ EngineNext
  \/ AddFiles
  \/ UpdateAISettings
  \/ StartBatchProcessing
  \/ ResumeProcessing
  \/ RemoveFile
  \/ ReprocessFile
  \/ ReprocessReturnsAgain

ReprocessSpec == Init /\ [][ReprocessNext]_vars

\* ================================================================ claims
InFlightIds(S) == {id \in FileIds(S) : StatusOf(S, id) \in InFlight}

\* ids with a record before and after the step
Kept == FileIds(fileProcessing) \cap FileIds(fileProcessing')

\* C1: at most one file of the store is in flight (TRANSCRIBING, AI_PROCESSING
\* or GENERATING_SPEECH) in every reachable state.
C1_SingleFlight == Cardinality(InFlightIds(fileProcessing)) <= 1

\* the edges of section 4.2 as the claim lists them
LegalEdges ==
  {<<PENDING, TRANSCRIBING>>, <<TRANSCRIBING, TRANSCRIBED>>,
   <<TRANSCRIBED, AI_PROCESSING>>, <<AI_PROCESSING, AI_PROCESSED>>,
   <<AI_PROCESSED, REVIEW_PENDING>>, <<REVIEW_PENDING, APPROVED>>,
   <<REVIEW_PENDING, REJECTED>>, <<APPROVED, GENERATING_SPEECH>>,
   <<AI_PROCESSED, GENERATING_SPEECH>>, <<GENERATING_SPEECH, COMPLETED>>,
   <<TRANSCRIBING, FAILED>>, <<AI_PROCESSING, FAILED>>,
   <<GENERATING_SPEECH, FAILED>>, <<FAILED, PENDING>>}

\* C2: in every step, a file whose status changes moves along one of the
\* legal edges.
C2_LegalEdgesOnly ==
  [][\A id \in Kept :
       StatusOf(fileProcessing, id) # StatusOf(fileProcessing', id)
         => <<StatusOf(fileProcessing, id), StatusOf(fileProcessing', id)>> \in LegalEdges]_vars

\* C3: in every step, the progress of every file stays or grows.
C3_ProgressNeverDecreases ==
  [][\A id \in Kept :
       File(fileProcessing', id).progress >= File(fileProcessing, id).progress]_vars

\* C5: when review mode is on and the engine handles a file that is
\* AI_PROCESSED (reaching the review check after its rewrite, or taking it
\* from the head of the queue), the file is REVIEW_PENDING afterwards, in
\* reviewQueue and not in processingQueue.
C5_ReviewGate ==
  [][\A id \in FileIds(fileProcessing) :
       (/\ fileProcessing.batchReviewMode
        /\ StatusOf(fileProcessing, id) = AI_PROCESSED
        /\ \/ AfterAIDelay /\ engine.id = id
           \/ /\ ProcessNextInQueue
              /\ fileProcessing.currentlyProcessing = NullId
              /\ Len(fileProcessing.processingQueue) > 0
              /\ Head(fileProcessing.processingQueue) = id)
       => /\ StatusOf(fileProcessing', id) = REVIEW_PENDING
          /\ Includes(fileProcessing'.reviewQueue, id)
          /\ ~Includes(fileProcessing'.processingQueue, id)]_vars

\* C6: a step that starts Synthesize for a file (its status becomes
\* GENERATING_SPEECH) finds the file APPROVED, or AI_PROCESSED with review
\* mode off.
C6_SynthesizeOnlyWhenCleared ==
  [][\A id \in Kept :
       (/\ StatusOf(fileProcessing, id) # GENERATING_SPEECH
        /\ StatusOf(fileProcessing', id) = GENERATING_SPEECH)
       => \/ StatusOf(fileProcessing, id) = APPROVED
          \/ /\ StatusOf(fileProcessing, id) = AI_PROCESSED
             /\ ~fileProcessing.batchReviewMode]_vars

\* C8: a step that rejects a REVIEW_PENDING file takes its id out of
\* reviewQueue and leaves processingQueue as it was; a REJECTED file keeps
\* its record unchanged for as long as it exists (no stage call starts or
\* lands on it) and no step puts its id into processingQueue.
C8_RejectedStaysOut ==
  [][\A id \in Kept :
       /\ (/\ StatusOf(fileProcessing, id) = REVIEW_PENDING
           /\ StatusOf(fileProcessing', id) = REJECTED)
          => /\ ~Includes(fileProcessing'.reviewQueue, id)
             /\ fileProcessing'.processingQueue = fileProcessing.processingQueue
       /\ StatusOf(fileProcessing, id) = REJECTED
          => /\ File(fileProcessing', id) = File(fileProcessing, id)
             /\ ~Includes(fileProcessing.processingQueue, id)
                  => ~Includes(fileProcessing'.processingQueue, id)]_vars

Range(seq) == {seq[i] : i \in 1..Len(seq)}

IsPrefix(a, b) == Len(a) <= Len(b) /\ SubSeq(b, 1, Len(a)) = a

NoDuplicates(seq) == \A i, j \in 1..Len(seq) : seq[i] = seq[j] => i = j

\* C9: for every list of ids, startBatchProcessing either finds no id whose
\* status is PENDING, TRANSCRIBED, AI_PROCESSED or APPROVED, signals an error
\* and leaves the store as it is, or it appends to processingQueue exactly the
\* eligible ids that were not queued, each once, returns the number of
\* eligible entries and leaves every file record and the slot unchanged.
C9_StartBatchProcessing ==
  \A fileIds \in IdLists(fileProcessing, MaxListLen) :
    LET S == fileProcessing
        r == startBatchProcessing(S, fileIds)
        eligible == {id \in Range(fileIds) :
                       /\ id \in FileIds(S)
                       /\ File(S, id).status \in {PENDING, TRANSCRIBED, AI_PROCESSED, APPROVED}}
        added == SubSeq(r.S.processingQueue, Len(S.processingQueue) + 1,
                        Len(r.S.processingQueue))
    IN IF eligible = {}
       THEN r.threw /\ r.S = S
       ELSE /\ ~r.threw
            /\ r.result = Cardinality({i \in 1..Len(fileIds) : fileIds[i] \in eligible})
            /\ IsPrefix(S.processingQueue, r.S.processingQueue)
            /\ Range(added) = eligible \ Range(S.processingQueue)
            /\ NoDuplicates(added)
            /\ r.S.files = S.files
            /\ r.S.currentlyProcessing = S.currentlyProcessing

\* a store where a call enqueues one id of a list and skips the other, and
\* where a call on a COMPLETED file and an in-flight file signals the error
C9_Witness ==
  /\ \E a, b \in FileIds(fileProcessing) :
       /\ StatusOf(fileProcessing, a) \in {TRANSCRIBED, AI_PROCESSED, APPROVED}
       /\ ~Includes(fileProcessing.processingQueue, a)
       /\ StatusOf(fileProcessing, b) \in {COMPLETED, FAILED, REJECTED} \cup InFlight
       /\ startBatchProcessing(fileProcessing, <<b, a>>).S.processingQueue
            = Append(fileProcessing.processingQueue, a)
       /\ startBatchProcessing(fileProcessing, <<b, UnknownId>>).threw

AllIds == {<<clock, k>> : clock \in 1..MaxAdds, k \in 0..(MaxLiveFiles - 1)}

\* a step in which an engine run ends with its file FAILED
EngineFails(id) ==
  /\ engine.pc # "idle"
  /\ engine.id = id
  /\ engine'.pc = "idle"
  /\ StatusOf(fileProcessing', id) = FAILED

\* C4: when an engine run ends with its file FAILED, the slot is empty and the
\* file is out of processingQueue, and from any state where a file is FAILED
\* every other id in processingQueue is eventually in the slot or out of the
\* queue.
C4_FailureDoesNotAbortQueue ==
  /\ [][\A id \in AllIds :
          EngineFails(id) => /\ fileProcessing'.currentlyProcessing = NullId
                             /\ ~Includes(fileProcessing'.processingQueue, id)]_vars
  /\ \A a, b \in AllIds :
       (/\ a # b
        /\ StatusOf(fileProcessing, a) = FAILED
        /\ Includes(fileProcessing.processingQueue, b))
       ~> (\/ fileProcessing.currentlyProcessing = b
           \/ ~Includes(fileProcessing.processingQueue, b))

\* C7: a step that approves a REVIEW_PENDING file leaves it APPROVED, out of
\* reviewQueue, in approvedFiles and in processingQueue, and an APPROVED file
\* in processingQueue is eventually COMPLETED, or FAILED, or removed.
C7_ApproveLeadsToCompleted ==
  /\ [][\A id \in Kept :
          (/\ HandleApprove
           /\ StatusOf(fileProcessing, id) = REVIEW_PENDING
           /\ StatusOf(fileProcessing', id) # REVIEW_PENDING)
          => /\ StatusOf(fileProcessing', id) = APPROVED
             /\ ~Includes(fileProcessing'.reviewQueue, id)
             /\ Includes(fileProcessing'.approvedFiles, id)
             /\ Includes(fileProcessing'.processingQueue, id)]_vars
  /\ \A id \in AllIds :
       (/\ StatusOf(fileProcessing, id) = APPROVED
        /\ Includes(fileProcessing.processingQueue, id))
       ~> (\/ ~HasFile(fileProcessing, id)
           \/ StatusOf(fileProcessing, id) \in {COMPLETED, FAILED})

\* C10: no id occurs twice in processingQueue.
C10_QueueIdsUnique == NoDuplicates(fileProcessing.processingQueue)

\* C11: a step in which the Transcribe call of the engine's file fails leaves
\* the file FAILED with its errors list grown by exactly one entry, whose
\* stage is "transcription".
C11_TranscribeFailureRecordedOnce ==
  [][\A id \in Kept :
       (/\ TranscribeReturns
        /\ engine.id = id
        /\ StatusOf(fileProcessing, id) = TRANSCRIBING
        /\ StatusOf(fileProcessing', id) # TRANSCRIBED)
       => /\ StatusOf(fileProcessing', id) = FAILED
          /\ File(fileProcessing', id).errors
               = Append(File(fileProcessing, id).errors, "transcription")]_vars

\* C12: retryFailedFiles turns every FAILED file into a PENDING file with
\* progress 0 and every other field as it was, leaves every other file as it
\* was, returns the number of FAILED files, keeps the queue it found and
\* appends the ids of the FAILED files that were not queued.
C12_RetryFailedFiles ==
  LET S == fileProcessing
      r == retryFailedFiles(S)
      failed == {i \in 1..Len(S.files) : S.files[i].status = FAILED}
      added == SubSeq(r.S.processingQueue, Len(S.processingQueue) + 1,
                      Len(r.S.processingQueue))
  IN /\ r.result = Cardinality(failed)
     /\ Len(r.S.files) = Len(S.files)
     /\ \A i \in 1..Len(S.files) :
          r.S.files[i] = IF i \in failed
                         THEN [S.files[i] EXCEPT !.status = PENDING, !.progress = 0]
                         ELSE S.files[i]
     /\ IsPrefix(S.processingQueue, r.S.processingQueue)
     /\ Range(added) = {S.files[i].id : i \in failed} \ Range(S.processingQueue)
     /\ NoDuplicates(added)
     /\ [r.S EXCEPT !.files = S.files, !.processingQueue = S.processingQueue] = S

\* a store with a FAILED file that has a transcription and progress 33, next
\* to a file that is not FAILED and has progress
C12_Witness ==
  \E a, b \in FileIds(fileProcessing) :
    /\ StatusOf(fileProcessing, a) = FAILED
    /\ File(fileProcessing, a).progress > 0
    /\ File(fileProcessing, a).transcription # Null
    /\ StatusOf(fileProcessing, b) \notin {FAILED, PENDING}
    /\ File(fileProcessing, b).progress > 0
    /\ retryFailedFiles(fileProcessing).result = 1

\* C13: with review mode off, a step that puts a PENDING file into
\* TRANSCRIBING finds every other file of the store outside a pipeline:
\* PENDING, COMPLETED or FAILED.
C13_PipelinesDoNotOverlap ==
  [][\A b \in Kept :
       (/\ ~fileProcessing.batchReviewMode
        /\ StatusOf(fileProcessing, b) = PENDING
        /\ StatusOf(fileProcessing', b) = TRANSCRIBING)
       => \A a \in FileIds(fileProcessing) \ {b} :
            StatusOf(fileProcessing, a) \in {PENDING, COMPLETED, FAILED}]_vars

\* the place of an id in a queue that holds it
Pos(seq, x) == CHOOSE i \in 1..Len(seq) : seq[i] = x

\* C14: a step that puts an id into the slot finds the slot empty and that id
\* at the head of processingQueue; and every step keeps the order of the ids
\* that stay in the queue and puts the ids it adds behind them, so that an id
\* is never started while an id enqueued before it is still queued.
C14_FifoStart ==
  [][LET S == fileProcessing
         T == fileProcessing'
     IN /\ (T.currentlyProcessing # NullId /\ T.currentlyProcessing # S.currentlyProcessing)
           => /\ S.currentlyProcessing = NullId
              /\ Len(S.processingQueue) > 0
              /\ Head(S.processingQueue) = T.currentlyProcessing
        /\ \A a \in Range(S.processingQueue) \cap Range(T.processingQueue) :
             \A b \in Range(T.processingQueue) \ {a} :
               \/ b \in Range(S.processingQueue)
                  /\ (Pos(S.processingQueue, a) < Pos(S.processingQueue, b))
                       = (Pos(T.processingQueue, a) < Pos(T.processingQueue, b))
               \/ b \notin Range(S.processingQueue)
                  /\ Pos(T.processingQueue, a) < Pos(T.processingQueue, b)]_vars

\* the engine has started the head of a queue of two and the second id waits
C14_Witness ==
  /\ Len(fileProcessing.processingQueue) = 2
  /\ fileProcessing.currentlyProcessing = Head(fileProcessing.processingQueue)
  /\ StatusOf(fileProcessing, Head(fileProcessing.processingQueue)) = TRANSCRIBING
  /\ StatusOf(fileProcessing, fileProcessing.processingQueue[2]) = PENDING

\* a step in which the engine arrives at step 2 for the TRANSCRIBED file id
\* with no openaiApiKey in the settings it holds
NoCredentialStep(id) ==
  /\ StatusOf(fileProcessing, id) = TRANSCRIBED
  /\ \/ /\ AfterTranscribeDelay
        /\ engine.id = id
        /\ ~engine.apiKey
     \/ /\ ProcessNextInQueue
        /\ ~processingRef
        /\ fileProcessing.currentlyProcessing = NullId
        /\ Len(fileProcessing.processingQueue) > 0
        /\ Head(fileProcessing.processingQueue) = id
        /\ ~settings.openaiApiKey

\* the step itself: the file ends FAILED with one more error, no
\* processWithAI call is issued, the slot is empty, the file is out of
\* processingQueue and no other record changes
MissingCredentialStep ==
  [][\A id \in AllIds :
       NoCredentialStep(id)
       => /\ StatusOf(fileProcessing', id) = FAILED
          /\ File(fileProcessing', id).errors
               = Append(File(fileProcessing, id).errors, "none")
          /\ engine'.pc = "idle"
          /\ fileProcessing'.currentlyProcessing = NullId
          /\ ~Includes(fileProcessing'.processingQueue, id)
          /\ \A other \in FileIds(fileProcessing) \ {id} :
               /\ HasFile(fileProcessing', other)
               /\ File(fileProcessing', other) = File(fileProcessing, other)]_vars

\* C15: when the engine reaches step 2 for a TRANSCRIBED file without an
\* openaiApiKey, only that file is affected (it ends FAILED with an error, no
\* processWithAI call is issued, the slot is released), and from any state
\* where a file has FAILED for the missing key, every other id in
\* processingQueue is eventually in the slot or out of the queue.
C15_MissingCredentialFailsOneFile ==
  /\ MissingCredentialStep
  /\ \A a, b \in AllIds :
       (/\ a # b
        /\ StatusOf(fileProcessing, a) = FAILED
        /\ File(fileProcessing, a).errors = <<"none">>
        /\ Includes(fileProcessing.processingQueue, b))
       ~> (\/ fileProcessing.currentlyProcessing = b
           \/ ~Includes(fileProcessing.processingQueue, b))

\* the store after removeFile(id) has no record for id, no id in
\* processingQueue, and a slot that is not id
Removed(S, id) ==
  LET T == removeFile(S, id)
  IN /\ ~HasFile(T, id)
     /\ ~Includes(T.processingQueue, id)
     /\ T.currentlyProcessing # id

\* C16: in every reachable state, removeFile(id) for any file of the store,
\* the one in the slot included, leaves no record for id, id out of
\* processingQueue and the slot different from id; and a step after which a
\* record is gone is a removeFile or a clearAllFiles of the page, never a step
\* of the engine.
C16_RemoveFile ==
  /\ [](\A id \in FileIds(fileProcessing) : Removed(fileProcessing, id))
  /\ [][(\E id \in FileIds(fileProcessing) : ~HasFile(fileProcessing', id))
        => (RemoveFile \/ ClearAllFiles)]_vars

\* the file of the active run has been removed, another file is still there
C16_Witness ==
  /\ engine.pc # "idle"
  /\ ~HasFile(fileProcessing, engine.id)
  /\ fileProcessing.currentlyProcessing = NullId
  /\ fileProcessing.files # <<>>

\* the positions of a run at which a remote call is outstanding
CallOutstanding == {"transcribe", "ai", "speech"}

\* C17: in every step of a run whose record has been removed, the records of
\* the store stay as they are (the removed id does not come back, no other
\* record changes) and no further remote call is issued; and when the run
\* ends, the slot is empty.
C17_ResultOfRemovedFileDiscarded ==
  [][(/\ engine.pc # "idle"
      /\ ~HasFile(fileProcessing, engine.id)
      /\ engine' # engine)
     => /\ fileProcessing'.files = fileProcessing.files
        /\ engine'.pc \notin CallOutstanding
        /\ engine'.pc = "idle" => fileProcessing'.currentlyProcessing = NullId]_vars

\* a record has been removed while the call of its run is outstanding (a call
\* is issued only for a record that is there), and another record is in the
\* store
C17_Witness ==
  /\ engine.pc \in CallOutstanding
  /\ ~HasFile(fileProcessing, engine.id)
  /\ fileProcessing.files # <<>>

\* ids with no record in store S
MissingIds(S) == (AllIds \cup {UnknownId}) \ FileIds(S)

\* the values a progress, a text and an audio argument take
ProgressArgs == {Undefined, 0, 33, 66, 100}
TextArgs == {Null, "text", "rewrite"}

\* every per-file reducer applied to store S with id returns S
PerFileOpsLeaveStore(S, id) ==
  /\ \A status \in FILE_STATUS : \A progress \in ProgressArgs :
       updateFileStatus(S, id, status, progress) = S
  /\ \A text \in TextArgs : \A editableText \in TextArgs :
       /\ updateFileTranscription(S, id, text, editableText) = S
       /\ updateFileAIResult(S, id, text, editableText) = S
  /\ updateFileFinalAudio(S, id, "audio") = S
  /\ markFileCompleted(S, id) = S
  /\ markFileFailed(S, id) = S
  /\ transcribeFilePending(S, id) = S
  /\ transcribeFileFulfilled(S, id, "text") = S
  /\ transcribeFileRejected(S, id) = S
  /\ processWithAIPending(S, id) = S
  /\ processWithAIFulfilled(S, id, "rewrite") = S
  /\ processWithAIRejected(S, id) = S
  /\ generateSpeechPending(S, id) = S
  /\ generateSpeechFulfilled(S, id, "audio") = S
  /\ generateSpeechRejected(S, id) = S

\* C18: in every reachable state, each per-file store operation applied with
\* an id that has no record returns the fileProcessing state as it was: files,
\* queue, slot and the statistics counters.
C18_MissingIdIsNoOp ==
  \A id \in MissingIds(fileProcessing) : PerFileOpsLeaveStore(fileProcessing, id)

\* a record left the store during its run, which goes on to apply its
\* reducers to the id, while the store holds another record and its counters
\* are not zero
C18_Witness ==
  /\ engine.pc \in {"delay1", "delay2"}
  /\ engine.id \in MissingIds(fileProcessing)
  /\ fileProcessing.files # <<>>
  /\ fileProcessing.statistics.failedFiles > 0

\* C19: when a run arrives at step 2 for its TRANSCRIBED file, it goes by the
\* settings of that moment: the processWithAI call is issued exactly when the
\* settings hold an openaiApiKey then, also when the key was entered while
\* the file was being transcribed.
C19_SettingsCurrentAtIssue ==
  [][(/\ engine.pc = "delay1"
      /\ engine'.pc # "delay1"
      /\ StatusOf(fileProcessing, engine.id) = TRANSCRIBED)
     => ((engine'.pc = "ai") <=> settings.openaiApiKey)]_vars

\* a step in which the processWithAI of the reprocessFile call c is fulfilled
\* and the record is still in the store
ReprocessSucceeds(c) ==
  /\ ReprocessReturnsAgain
  /\ \E i \in 1..Len(reprocessCalls) :
       /\ reprocessCalls[i] = c
       /\ reprocessCalls' = RemoveAt(reprocessCalls, i)
  /\ HasFile(fileProcessing', c.fileId)
  /\ StatusOf(fileProcessing', c.fileId) # FAILED

\* C20: when a reprocessFile made on an AI_PROCESSED file succeeds, the file's
\* aiResult and editableAIResult are the new output, and its status and
\* progress are the ones the file had when reprocessFile was called.
C20_ReprocessOverwritesRewrite ==
  [][\A c \in Range(reprocessCalls) :
       (c.file.status = AI_PROCESSED /\ ReprocessSucceeds(c))
       => /\ File(fileProcessing', c.fileId).aiResult = "rewrite again"
          /\ File(fileProcessing', c.fileId).editableAIResult = "rewrite again"
          /\ File(fileProcessing', c.fileId).status = c.file.status
          /\ File(fileProcessing', c.fileId).progress = c.file.progress]_vars

\* a file that was AI_PROCESSED with the engine's rewrite now holds the
\* output of a reprocessFile
C20_Witness ==
  /\ reprocessCalls = <<>>
  /\ \E id \in FileIds(fileProcessing) :
       /\ File(fileProcessing, id).aiResult = "rewrite again"
       /\ File(fileProcessing, id).editableAIResult = "rewrite again"
       /\ StatusOf(fileProcessing, id) = AI_PROCESSED

\* a step of Spec in which the processWithAI of the reprocess call c is
\* fulfilled and the record is still in the store
ReprocessFulfilled(c) ==
  /\ ReprocessReturns
  /\ \E i \in 1..Len(reprocessCalls) :
       /\ reprocessCalls[i] = c
       /\ reprocessCalls' = RemoveAt(reprocessCalls, i)
  /\ HasFile(fileProcessing', c.fileId)
  /\ StatusOf(fileProcessing', c.fileId) # FAILED

\* C21: when a reprocess made on a REVIEW_PENDING file succeeds, the file is
\* REVIEW_PENDING and in reviewQueue, and nothing of its record but aiResult
\* and editableAIResult has changed.
C21_ReprocessKeepsReviewPending ==
  [][\A c \in Range(reprocessCalls) :
       (c.file.status = REVIEW_PENDING /\ ReprocessFulfilled(c))
       => /\ StatusOf(fileProcessing', c.fileId) = REVIEW_PENDING
          /\ Includes(fileProcessing'.reviewQueue, c.fileId)
          /\ [File(fileProcessing', c.fileId) EXCEPT !.aiResult = Null,
                                                     !.editableAIResult = Null]
               = [c.file EXCEPT !.aiResult = Null, !.editableAIResult = Null]]_vars

\* the results a record holds
ResultsOf(f) ==
  <<f.transcription, f.editableTranscription, f.aiResult, f.editableAIResult, f.finalAudio>>

\* C22: in every step that takes a file from another status to FAILED, the
\* file's transcription, editableTranscription, aiResult, editableAIResult
\* and finalAudio stay what they were.
C22_FailureKeepsResults ==
  [][\A id \in Kept :
       (StatusOf(fileProcessing, id) # FAILED /\ StatusOf(fileProcessing', id) = FAILED)
       => ResultsOf(File(fileProcessing', id)) = ResultsOf(File(fileProcessing, id))]_vars

\* a file has FAILED in its third stage and holds its transcription and its rewrite
C22_Witness ==
  \E id \in FileIds(fileProcessing) :
    /\ StatusOf(fileProcessing, id) = FAILED
    /\ File(fileProcessing, id).transcription = "text"
    /\ File(fileProcessing, id).editableAIResult = "rewrite"
    /\ Includes(File(fileProcessing, id).errors, "speech_generation")

\* C23: in every step, for every file that stays in the store, the errors
\* list before the step is a prefix of the errors list after it.
C23_ErrorsAppendOnly ==
  [][\A id \in Kept :
       IsPrefix(File(fileProcessing, id).errors, File(fileProcessing', id).errors)]_vars

\* a file that failed has been retried and has passed its first stage, its
\* errors still there
C23_Witness ==
  \E id \in FileIds(fileProcessing) :
    /\ StatusOf(fileProcessing, id) = TRANSCRIBED
    /\ File(fileProcessing, id).errors # <<>>

\* the record f of a file before the call of a stage settles and its record g
\* after: either the stage's
\* completed status and progress, or FAILED with the progress kept and the
\* entry appended to errors naming the stage
StageSettled(f, g, status, progress, stage) ==
  \/ /\ g.status = status
     /\ g.progress = progress
     /\ g.errors = f.errors
  \/ /\ g.status = FAILED
     /\ g.progress = f.progress
     /\ IsPrefix(f.errors, g.errors)
     /\ Len(g.errors) > Len(f.errors)
     /\ g.errors[Len(f.errors) + 1] = stage

StageOutcome(pc, status, progress, stage) ==
  (/\ engine.pc = pc
   /\ engine' # engine
   /\ HasFile(fileProcessing, engine.id))
  => /\ HasFile(fileProcessing', engine.id)
     /\ StageSettled(File(fileProcessing, engine.id), File(fileProcessing', engine.id),
                     status, progress, stage)

C25_TerminalStatuses ==
  [][\A id \in Kept :
       /\ StatusOf(fileProcessing, id) \in {COMPLETED, REJECTED}
          => StatusOf(fileProcessing', id) = StatusOf(fileProcessing, id)
       /\ (StatusOf(fileProcessing, id) = FAILED /\ StatusOf(fileProcessing', id) # FAILED)
          => (RetryFailedFiles /\ StatusOf(fileProcessing', id) = PENDING)]_vars

\* C26: in every reachable state no id is in both reviewQueue and
\* processingQueue, and every id in reviewQueue is the id of a file whose
\* status is REVIEW_PENDING.
C26_ReviewQueueApart ==
  \A id \in Range(fileProcessing.reviewQueue) :
    /\ ~Includes(fileProcessing.processingQueue, id)
    /\ StatusOf(fileProcessing, id) = REVIEW_PENDING

\* C27: a step of handleApproveAll leaves reviewQueue empty, appends the ids
\* that were in it to approvedFiles in their order, and starts a batch audio
\* run over exactly those ids.
C27_ApproveAll ==
  [][HandleApproveAll
     => /\ fileProcessing'.reviewQueue = <<>>
        /\ fileProcessing'.approvedFiles
             = fileProcessing.approvedFiles \o fileProcessing.reviewQueue
        /\ Len(batchRuns') = Len(batchRuns) + 1
        /\ batchRuns'[Len(batchRuns')].todo = fileProcessing.reviewQueue]_vars

\* the ids of the records of store S, in the order of the records
Ids(S) == [i \in 1..Len(S.files) |-> S.files[i].id]

\* C28: in every reachable state no two records of the store have the same
\* id, and in every step the ids of the records are those of before, with
\* ids of new records appended or ids of removed records taken out.
C28_UniqueStableIds ==
  /\ [](NoDuplicates(Ids(fileProcessing)))
  /\ [][\/ IsPrefix(Ids(fileProcessing), Ids(fileProcessing'))
        \/ Ids(fileProcessing')
             = SelectSeq(Ids(fileProcessing),
                         LAMBDA id : Includes(Ids(fileProcessing'), id))]_vars

\* the allow-list: the declared type is one of the valid types, or the name
\* ends in a dot and one of the nine extensions, in upper or lower case
AllowedExtensions == {"mp3", "wav", "m4a", "flac", "mp4", "avi", "mov", "mkv", "webm"}

Spelled(name) ==
  CASE name = <<"a", ".", "m", "p", "3">> -> [stem |-> "a", extension |-> "mp3"]
    [] name = <<"a", ".", "W", "a", "V">> -> [stem |-> "a", extension |-> "wav"]
    [] name = <<"a", "m", "p", "3">> -> [stem |-> "amp3", extension |-> ""]
    [] name = <<"a", ".", "m", "p", "3", ".", "t", "x", "t">>
         -> [stem |-> "a.mp3", extension |-> "txt"]

PassesAllowList(file) ==
  \/ file.type \in validTypes
  \/ Spelled(file.name).extension \in AllowedExtensions

NumberPassing(selectedFiles) ==
  Cardinality({i \in 1..Len(selectedFiles) : PassesAllowList(selectedFiles[i])})

\* the store T is store S with n new records after the old ones, each
\* PENDING with progress 0 and no error, and nothing else changed but
\* the count of files
AddedRecords(S, T, n) ==
  /\ Len(T.files) = Len(S.files) + n
  /\ SubSeq(T.files, 1, Len(S.files)) = S.files
  /\ \A i \in (Len(S.files) + 1)..Len(T.files) :
       /\ T.files[i].status = PENDING
       /\ T.files[i].progress = 0
       /\ T.files[i].errors = <<>>
  /\ [T EXCEPT !.files = S.files, !.statistics = S.statistics] = S
  /\ T.statistics.failedFiles = S.statistics.failedFiles
  /\ n = 0 => T = S

\* C29: in every reachable state, handleFileSelect with any selection adds
\* one PENDING record with progress 0 for each file of the selection that
\* passes the allow-list and none for the others, which leave no error
\* anywhere; a selection with no valid file leaves the store as it is.
C29_OnlyValidFilesAdded ==
  \A selectedFiles \in Selections(MaxFiles) :
    AddedRecords(fileProcessing,
                 handleFileSelect(fileProcessing, selectedFiles, now, TRUE),
                 NumberPassing(selectedFiles))

\* one file of a selection of two passed the allow-list, by its upper-case
\* extension alone, and has its record
C29_Witness ==
  /\ Len(fileProcessing.files) = 1
  /\ fileProcessing.statistics.totalFiles = 1
  /\ now = 2
  /\ \E selectedFiles \in Selections(MaxFiles) :
       /\ Len(selectedFiles) = 2
       /\ selectedFiles[1].type = "text/plain"
       /\ selectedFiles[1].name = <<"a", ".", "W", "a", "V">>
       /\ ~PassesAllowList(selectedFiles[2])
       /\ handleFileSelect([fileProcessing EXCEPT !.files = <<>>,
                                                  !.statistics.totalFiles = 0],
                           selectedFiles, 1, TRUE) = fileProcessing

\* the ids of the COMPLETED files of store S
CompletedIds(S) == {id \in FileIds(S) : StatusOf(S, id) = COMPLETED}

\* C30: in every reachable state, the bulk download bundles the COMPLETED
\* files of the store, each once and no other file, fails with its error
\* exactly when no file is COMPLETED, and in both cases leaves the store
\* (records, queues, slot) as it was.
C30_ExportCompletedOnly ==
  LET r == handleBulkDownload(fileProcessing)
  IN /\ r.threw <=> CompletedIds(fileProcessing) = {}
     /\ Range(r.folderNames) = CompletedIds(fileProcessing)
     /\ NoDuplicates(r.folderNames)
     /\ r.fileCount = Cardinality(CompletedIds(fileProcessing))
     /\ r.S = fileProcessing

\* the store holds a COMPLETED file, which is bundled, and a FAILED file
\* with a transcription, which is not
C30_Witness ==
  \E a, b \in FileIds(fileProcessing) :
    /\ StatusOf(fileProcessing, a) = COMPLETED
    /\ StatusOf(fileProcessing, b) = FAILED
    /\ File(fileProcessing, b).transcription = "text"
    /\ handleBulkDownload(fileProcessing).folderNames = <<a>>

\* C31: for each of the three asset types, the export by kind is handed
\* exactly the COMPLETED files of the store, in their order, and leaves the
\* store as it is; when no file is COMPLETED it signals an error to its caller
\* and saves no export.
C31_ExportByKind ==
  \A assetType \in AssetTypes :
    LET r == handleDownloadAssetType(fileProcessing, assetType)
    IN /\ r.S = fileProcessing
       /\ r.files = bulkDownloadFiles(fileProcessing.files).folderNames
       /\ bulkDownloadFiles(fileProcessing.files).threw => r.threw /\ ~r.saved

\* C32: a reload restores the settings and nothing else: after it the store
\* has no file record, processingQueue and reviewQueue are empty and
\* currentlyProcessing is null.
C32_OnlySettingsPersisted ==
  [][Reload => /\ settings' = settings
               /\ fileProcessing'.files = <<>>
               /\ fileProcessing'.processingQueue = <<>>
               /\ fileProcessing'.reviewQueue = <<>>
               /\ fileProcessing'.currentlyProcessing = NullId]_vars

\* C33: whenever processingQueue is not empty and no engine run is active, a
\* run is eventually active or the queue is empty.
C33_NoStall ==
  (Len(fileProcessing.processingQueue) > 0 /\ ~processingRef)
    ~> (processingRef \/ Len(fileProcessing.processingQueue) = 0)

\* the queue engine has a Synthesize call outstanding for file id
EngineSynthesizes(id) == engine.pc = "speech" /\ engine.id = id

\* a startBatchAudioGeneration run has a Synthesize call outstanding for file id
BatchSynthesizes(id) ==
  \E i \in 1..Len(batchRuns) : batchRuns[i].pc = "speech" /\ Head(batchRuns[i].todo) = id

\* a step in which the engine, or a batch run, issues a Synthesize call for id
EngineIssuesSynthesize(id) ==
  /\ ~EngineSynthesizes(id)
  /\ engine'.pc = "speech" /\ engine'.id = id

BatchIssuesSynthesize(id) ==
  /\ \/ batchRuns' # batchRuns
     \/ ~BatchSynthesizes(id)
  /\ \E i \in 1..Len(batchRuns') :
       /\ batchRuns'[i].pc = "speech" /\ Head(batchRuns'[i].todo) = id
       /\ i <= Len(batchRuns) => batchRuns[i].pc # "speech"

\* C34: the queue engine and a batch audio run never have Synthesize calls
\* outstanding for the same file, and a step in which either issues a
\* Synthesize call for a file finds no call of the other outstanding for it
\* and no audio that a Synthesize call already produced for it.
C34_SynthesizedOnce ==
  /\ [](\A id \in FileIds(fileProcessing) :
          ~(EngineSynthesizes(id) /\ BatchSynthesizes(id)))
  /\ [][\A id \in FileIds(fileProcessing) :
          (EngineIssuesSynthesize(id) \/ BatchIssuesSynthesize(id))
          => /\ ~EngineSynthesizes(id)
             /\ ~BatchSynthesizes(id)
             /\ File(fileProcessing, id).finalAudio = Null]_vars

C36_SlotNamesARecord ==
  \/ fileProcessing.currentlyProcessing = NullId
  \/ HasFile(fileProcessing, fileProcessing.currentlyProcessing)

\* the file of a run that waits for its remote call has been removed, the
\* other file is still in the store, and the slot is empty
C36_Witness ==
  /\ engine.pc \in {"transcribe", "ai", "speech"}
  /\ ~HasFile(fileProcessing, engine.id)
  /\ fileProcessing.files # <<>>
  /\ fileProcessing.currentlyProcessing = NullId

\* a step in which the engine issues a stage call
EngineIssuesCall ==
  /\ engine'.pc \in {"transcribe", "ai", "speech"}
  /\ engine' # engine

\* C37: an invocation of processNextInQueue made while a run is active
\* (processingRef is true) changes nothing, and while a run is active every
\* stage call the engine issues is for the file of that run.
C37_ReentrancyGuard ==
  [][/\ (processingRef /\ CallProcessNextInQueue) => UNCHANGED vars
     /\ (processingRef /\ EngineIssuesCall) => engine'.id = engine.id]_vars

\* a run is suspended while the slot is free and another file is queued: the
\* flag is all that keeps an invocation from starting a second run
C37_Witness ==
  /\ processingRef
  /\ engine.pc # "idle"
  /\ fileProcessing.currentlyProcessing = NullId
  /\ Len(fileProcessing.processingQueue) > 0
  /\ Head(fileProcessing.processingQueue) # engine.id
  /\ ENABLED CallProcessNextInQueue

\* a step in which the engine takes file id into the slot
EngineStarts(id) ==
  /\ fileProcessing.currentlyProcessing # id
  /\ fileProcessing'.currentlyProcessing = id

HeadCannotAdvance(S, id) ==
  /\ Len(S.processingQueue) > 0
  /\ Head(S.processingQueue) = id
  /\ HasFile(S, id)
  /\ \/ StatusOf(S, id) \in {COMPLETED, FAILED, REJECTED}
     \/ S.batchReviewMode /\ StatusOf(S, id) = REVIEW_PENDING

\* C39: when the engine starts on a head of the queue whose status is
\* COMPLETED, FAILED or REJECTED, or REVIEW_PENDING under review mode, the
\* step takes the id out of processingQueue, leaves every record and the
\* statistics as they are, issues no stage call, ends with the slot empty and
\* no run active, and sets the timeout for the next head when the queue is
\* not empty.
C39_StuckHeadIsDropped ==
  [][\A id \in FileIds(fileProcessing) :
       (/\ ProcessNextInQueue
        /\ ~processingRef
        /\ fileProcessing.currentlyProcessing = NullId
        /\ HeadCannotAdvance(fileProcessing, id))
       => /\ fileProcessing'.processingQueue = Filter(fileProcessing.processingQueue, id)
          /\ fileProcessing'.files = fileProcessing.files
          /\ fileProcessing'.statistics = fileProcessing.statistics
          /\ fileProcessing'.currentlyProcessing = NullId
          /\ engine' = Idle
          /\ ~processingRef'
          /\ Len(fileProcessing'.processingQueue) > 0 => timer']_vars

\* the timeout is pending on a queue whose head is REJECTED, with a PENDING
\* file behind it
C39_Witness ==
  /\ timer
  /\ ~processingRef
  /\ fileProcessing.currentlyProcessing = NullId
  /\ Len(fileProcessing.processingQueue) = 2
  /\ HeadCannotAdvance(fileProcessing, Head(fileProcessing.processingQueue))
  /\ StatusOf(fileProcessing, Head(fileProcessing.processingQueue)) = REJECTED
  /\ StatusOf(fileProcessing, fileProcessing.processingQueue[2]) = PENDING

\* the files that a step moves to `status` from another status
MovedTo(status) ==
  {id \in Kept : /\ StatusOf(fileProcessing, id) # status
                 /\ StatusOf(fileProcessing', id) = status}

\* C40: in every step other than clearAllFiles, statistics.failedFiles grows
\* by the number of files the step moves to FAILED and
\* statistics.completedFiles by the number it moves to COMPLETED; a
\* clearAllFiles step sets both to 0.
C40_CountersFollowStatuses ==
  [][IF ClearAllFiles
     THEN /\ fileProcessing'.statistics.failedFiles = 0
          /\ fileProcessing'.statistics.completedFiles = 0
     ELSE /\ fileProcessing'.statistics.failedFiles
               = fileProcessing.statistics.failedFiles + Cardinality(MovedTo(FAILED))
          /\ fileProcessing'.statistics.completedFiles
               = fileProcessing.statistics.completedFiles + Cardinality(MovedTo(COMPLETED))]_vars

====
